---------------------------- MODULE Spec2Model ----------------------------
(***************************************************************************)
(* Gimbal-LLM-Control: the motion controller (core/gimbal_controller.py)   *)
(* and the command interpreter (llm/llm_service.py).                       *)
(*                                                                         *)
(* Angles are Python floats in the source.  Here an angle is an integer    *)
(* number of thousandths of a degree, and the product of update() is       *)
(* rounded to the nearest thousandth, as float arithmetic rounds to the    *)
(* nearest representable value.  The resolution is fine enough that the    *)
(* smallest step update() can take outside the arrival threshold           *)
(* (0.1 degree at speed 1, i.e. 0.001 degree) is not rounded away.         *)
(***************************************************************************)
EXTENDS Integers, Sequences, FiniteSets, TLC

VARIABLES
    pan,            \* GimbalController.pan          (thousandths of a degree)
    tilt,           \* GimbalController.tilt
    speed,          \* GimbalController.speed
    is_moving,      \* GimbalController.is_moving
    target_pan,     \* GimbalController.target_pan
    target_tilt,    \* GimbalController.target_tilt
    status,         \* GimbalController.status (the attribute)
    emitted,        \* the signals emitted by the last handler call, in order
    status_label,   \* StatusPanel.status_label, fed by status_changed
    op,             \* the last controller operation that was called
    args,           \* its arguments: <<angle, speed>>, or <<>> if it has none
    last_cmd,       \* the last operation called other than update()
    cmds,           \* number of pan_to/tilt_to/move_to_home/stop calls so far
    ticks,          \* number of update() calls so far (saturates at MaxTicks)
    ollama_available,   \* LLMService.ollama_available
    command,        \* the text handed to LLMService.process_command
    reply,          \* what the backend did with the last request
    result,         \* what process_command did: a GimbalCommand returned, or a raise
    llm_pc,         \* "idle", "submitted" (command emitted), "done" (result there)
    response_label, \* ControlPanel.response_label: the message shown and its colour
    inflight,       \* the text commands whose process_command call has not returned
    next_seq,       \* the number the next submitted text command gets
    applied         \* the numbers of the text commands handled so far, in order

ctrl == <<pan, tilt, speed, is_moving, target_pan, target_tilt, status>>
vars == <<pan, tilt, speed, is_moving, target_pan, target_tilt, status,
          emitted, status_label, op, args, last_cmd, cmds, ticks,
          ollama_available, command, reply, result, llm_pc,
          response_label, inflight, next_seq, applied>>
app_vars == <<response_label, inflight, next_seq, applied>>
ctrl_vars == <<pan, tilt, speed, is_moving, target_pan, target_tilt, status,
               emitted, status_label, op, args, last_cmd, cmds, ticks>>
llm_vars == <<ollama_available, command, reply, result, llm_pc>>

---------------------------------------------------------------------------
(* Bounds of the model *)

\* pan_to/tilt_to/move_to_home/stop are called at most MaxCmds times
MaxCmds == 2
\* ... and only during the first MaxTicks timer ticks; update() itself is
\* never disabled, so every motion runs to its end
MaxTicks == 2
\* in the specification of the timer running alone: the number of calls
\* that precede the first tick
LiveCmds == 2
\* a text is at most MaxWords words
MaxWords == 2

\* angle arguments (thousandths of a degree): beyond both limits of both
\* axes, inside them, and a target close to home
Angles == {-200000, 300, 100000, 200000}
\* speed arguments: negative, zero, the default, above the maximum
Speeds == {-3, 0, 5, 12}

---------------------------------------------------------------------------
(* Constants of gimbal_controller.py *)

PanLimit == 180000
TiltLimit == 90000
MinSpeed == 1
MaxSpeed == 10
HomeAngle == 0
HomeSpeed == 5
ArrivalThreshold == 100
SpeedDivisor == 100

---------------------------------------------------------------------------
(* Python builtins used by the controller *)

min(a, b) == IF b < a THEN b ELSE a
max(a, b) == IF b > a THEN b ELSE a
abs(x) == IF x < 0 THEN -x ELSE x

\* n / d rounded to the nearest integer (d > 0), ties away from zero
RoundDiv(n, d) == IF n >= 0 THEN (2 * n + d) \div (2 * d)
                            ELSE -((2 * (-n) + d) \div (2 * d))

---------------------------------------------------------------------------
(* The controller object and its methods, as functions of the object *)

StatusChanged(s) == [signal |-> "status_changed", arg |-> s]
PositionChanged(p) == [signal |-> "position_changed", arg |-> p]

\* GimbalController.__init__
NewController ==
    [pan |-> 0, tilt |-> 0, speed |-> 5, is_moving |-> FALSE,
     target_pan |-> 0, target_tilt |-> 0, status |-> "Ready",
     emitted |-> <<>>]

\* the object at the start of a handler: nothing emitted yet
Self ==
    [pan |-> pan, tilt |-> tilt, speed |-> speed, is_moving |-> is_moving,
     target_pan |-> target_pan, target_tilt |-> target_tilt,
     status |-> status, emitted |-> <<>>]

get_position(c) == [pan |-> c.pan, tilt |-> c.tilt, speed |-> c.speed]

\* the angle is stored as given
ClampPan_Unclamped(angle) == angle

ClampPan(angle) == max(-PanLimit, min(PanLimit, angle))
\* the tilt axis is given the limits of the pan axis
ClampTilt_PanLimits(angle) == max(-PanLimit, min(PanLimit, angle))

ClampTilt(angle) == max(-TiltLimit, min(TiltLimit, angle))
\* the lower limit is forgotten
ClampSpeed_NoFloor(s) == min(MaxSpeed, s)

ClampSpeed(s) == max(MinSpeed, min(MaxSpeed, s))

\* the target is set without the status notification
pan_to_NoStatus(c, angle, s) ==
    [c EXCEPT !.target_pan = ClampPan(angle),
              !.speed = ClampSpeed(s),
              !.is_moving = TRUE]

pan_to(c, angle, s) ==
    [c EXCEPT !.target_pan = ClampPan(angle),
              !.speed = ClampSpeed(s),
              !.is_moving = TRUE,
              !.emitted = Append(@, StatusChanged("Moving"))]

tilt_to(c, angle, s) ==
    [c EXCEPT !.target_tilt = ClampTilt(angle),
              !.speed = ClampSpeed(s),
              !.is_moving = TRUE,
              !.emitted = Append(@, StatusChanged("Moving"))]

\* the tilt axis is left where it was
move_to_home_PanOnly(c) == pan_to(c, HomeAngle, HomeSpeed)

move_to_home(c) == tilt_to(pan_to(c, HomeAngle, HomeSpeed), HomeAngle, HomeSpeed)

\* the targets are left where they were
stop_KeepTargets(c) ==
    [c EXCEPT !.is_moving = FALSE,
              !.emitted = Append(@, StatusChanged("Ready"))]

\* the motion is retargeted but not ended
stop_StillMoving(c) ==
    [c EXCEPT !.target_pan = c.pan,
              !.target_tilt = c.tilt,
              !.emitted = Append(@, StatusChanged("Ready"))]

stop(c) ==
    [c EXCEPT !.is_moving = FALSE,
              !.target_pan = c.pan,
              !.target_tilt = c.tilt,
              !.emitted = Append(@, StatusChanged("Ready"))]

\* speed / 10.0 instead of speed / 100.0
MoveStep_Tenth(diff, s) == RoundDiv(diff * s, 10)

\* diff * (speed / 100.0)
MoveStep(diff, s) == RoundDiv(diff * s, SpeedDivisor)

\* arrival without a threshold
Arrived_Exact(pan_diff, tilt_diff) == pan_diff = 0 /\ tilt_diff = 0

Arrived(pan_diff, tilt_diff) ==
    abs(pan_diff) < ArrivalThreshold /\ abs(tilt_diff) < ArrivalThreshold

\* the early return is missing
update_NoEarlyReturn(c) ==
    LET pan_diff == c.target_pan - c.pan
        tilt_diff == c.target_tilt - c.tilt
        moved ==
            IF Arrived(pan_diff, tilt_diff)
            THEN [c EXCEPT !.pan = c.target_pan,
                           !.tilt = c.target_tilt,
                           !.is_moving = FALSE,
                           !.emitted = Append(@, StatusChanged("Ready"))]
            ELSE [c EXCEPT !.pan = @ + MoveStep(pan_diff, c.speed),
                           !.tilt = @ + MoveStep(tilt_diff, c.speed)]
    IN  [moved EXCEPT !.emitted = Append(@, PositionChanged(get_position(moved)))]

update(c) ==
    IF ~c.is_moving THEN c
    ELSE
        LET pan_diff == c.target_pan - c.pan
            tilt_diff == c.target_tilt - c.tilt
            moved ==
                IF Arrived(pan_diff, tilt_diff)
                THEN [c EXCEPT !.pan = c.target_pan,
                               !.tilt = c.target_tilt,
                               !.is_moving = FALSE,
                               !.emitted = Append(@, StatusChanged("Ready"))]
                ELSE [c EXCEPT !.pan = @ + MoveStep(pan_diff, c.speed),
                               !.tilt = @ + MoveStep(tilt_diff, c.speed)]
        IN  [moved EXCEPT !.emitted = Append(@, PositionChanged(get_position(moved)))]

---------------------------------------------------------------------------
(* The listeners of status_changed: MainWindow.on_status_changed ->        *)
(* StatusPanel.update_status                                               *)

RECURSIVE update_status(_, _)
update_status(label, signals) ==
    IF signals = <<>> THEN label
    ELSE update_status(
            IF Head(signals).signal = "status_changed"
            THEN Head(signals).arg ELSE label,
            Tail(signals))

\* the handler has run and left the object as c
Store(c) ==
    /\ pan' = c.pan
    /\ tilt' = c.tilt
    /\ speed' = c.speed
    /\ is_moving' = c.is_moving
    /\ target_pan' = c.target_pan
    /\ target_tilt' = c.target_tilt
    /\ status' = c.status
    /\ emitted' = c.emitted
    /\ status_label' = update_status(status_label, c.emitted)

---------------------------------------------------------------------------
(* Python strings.  A str is the sequence of its characters; LongDigits is *)
(* one element that stands for LongDigitsLen consecutive "9" characters.   *)

LongDigits == "9{4301}"
LongDigitsLen == 4301
\* sys.int_info.default_max_str_digits: int(str) raises ValueError beyond it
IntMaxStrDigits == 4300

UpperLetters == <<"A", "B", "C", "D", "E", "F", "G", "H", "I", "J", "K", "L", "M", "N", "O", "P", "Q", "R", "S", "T", "U", "V", "W", "X", "Y", "Z">>
LowerLetters == <<"a", "b", "c", "d", "e", "f", "g", "h", "i", "j", "k", "l", "m", "n", "o", "p", "q", "r", "s", "t", "u", "v", "w", "x", "y", "z">>
DigitChars == <<"0", "1", "2", "3", "4", "5", "6", "7", "8", "9">>
Whitespace == {" ", "\t", "\n"}

Index(chars, ch) == CHOOSE i \in 1..Len(chars) : chars[i] = ch
Among(chars, ch) == \E i \in 1..Len(chars) : chars[i] = ch

\* str.lower()
lower(s) ==
    [i \in 1..Len(s) |->
        IF Among(UpperLetters, s[i])
        THEN LowerLetters[Index(UpperLetters, s[i])] ELSE s[i]]

RECURSIVE lstrip(_)
lstrip(s) ==
    IF s # <<>> /\ Head(s) \in Whitespace THEN lstrip(Tail(s)) ELSE s

RECURSIVE rstrip(_)
rstrip(s) ==
    IF s # <<>> /\ s[Len(s)] \in Whitespace
    THEN rstrip(SubSeq(s, 1, Len(s) - 1)) ELSE s

\* str.strip()
strip(s) == rstrip(lstrip(s))

\* word in s
Contains(s, word) ==
    \E i \in 1..(Len(s) - Len(word) + 1) : SubSeq(s, i, i + Len(word) - 1) = word

\* any(word in s for word in words)
ContainsAny(s, words) == \E word \in words : Contains(s, word)

\* \d
IsDigit(ch) == ch = LongDigits \/ Among(DigitChars, ch)

RECURSIVE DigitPrefixLen(_)
DigitPrefixLen(s) ==
    IF s # <<>> /\ IsDigit(Head(s)) THEN 1 + DigitPrefixLen(Tail(s)) ELSE 0

\* re.findall(r'\d', s) instead: every digit is a run of its own
RECURSIVE findall_digits_SingleDigits(_)
findall_digits_SingleDigits(s) ==
    IF s = <<>> THEN <<>>
    ELSE IF IsDigit(Head(s))
         THEN <<<<Head(s)>>>> \o findall_digits_SingleDigits(Tail(s))
         ELSE findall_digits_SingleDigits(Tail(s))

\* re.findall(r'\d+', s): the maximal runs of digits, in order
RECURSIVE findall_digits(_)
findall_digits(s) ==
    IF s = <<>> THEN <<>>
    ELSE IF IsDigit(Head(s))
         THEN LET n == DigitPrefixLen(s)
              IN  <<SubSeq(s, 1, n)>> \o findall_digits(SubSeq(s, n + 1, Len(s)))
         ELSE findall_digits(Tail(s))

\* len() of a str
RECURSIVE StrLen(_)
StrLen(s) ==
    IF s = <<>> THEN 0
    ELSE (IF Head(s) = LongDigits THEN LongDigitsLen ELSE 1) + StrLen(Tail(s))

RECURSIVE DecimalValue(_)
DecimalValue(digits) ==
    IF digits = <<>> THEN 0
    ELSE 10 * DecimalValue(SubSeq(digits, 1, Len(digits) - 1))
         + (Index(DigitChars, digits[Len(digits)]) - 1)

---------------------------------------------------------------------------
(* What a call does: it returns a value or raises an exception *)

Return(v) == [raised |-> FALSE, value |-> v]
Raise(e) == [raised |-> TRUE, exc |-> e]

\* int(str) on a run of digits
int_of_digits(digits) ==
    IF StrLen(digits) > IntMaxStrDigits THEN Raise("ValueError")
    ELSE Return(DecimalValue(digits))

---------------------------------------------------------------------------
(* JSON values of the backend's answer, as json.loads gives them.  A number *)
(* is held in thousandths, like the angles.                                *)

Absent == [type |-> "absent", milli |-> 0, text |-> ""]
JNull == [type |-> "null", milli |-> 0, text |-> ""]
JNumber(m) == [type |-> "number", milli |-> m, text |-> ""]
JString(t) == [type |-> "string", milli |-> 0, text |-> t]

\* dict.get(key, default)
get(v, default) == IF v.type = "absent" THEN default ELSE v

\* float(x)
float(v) ==
    CASE v.type = "number" -> Return(v.milli)
      [] v.type = "string" ->
            CASE v.text = "30" -> Return(30000)
              [] v.text = "7" -> Return(7000)
              [] v.text = "5.5" -> Return(5500)
              [] OTHER -> Raise("ValueError")
      [] OTHER -> Raise("TypeError")

\* int(x): a float is truncated towards zero, a str must be an integer literal
int(v) ==
    CASE v.type = "number" ->
            Return(IF v.milli >= 0 THEN v.milli \div 1000 ELSE -((-v.milli) \div 1000))
      [] v.type = "string" ->
            CASE v.text = "30" -> Return(30)
              [] v.text = "7" -> Return(7)
              [] OTHER -> Raise("ValueError")
      [] OTHER -> Raise("TypeError")

\* str(x) of the value of data.get('action'): a str is itself, None is "None"
str(v) == IF v.type = "string" THEN v.text ELSE "None"

---------------------------------------------------------------------------
(* llm_service.py *)

\* the dataclass GimbalCommand; value is in thousandths of a degree, message
\* is the list of the pieces the text is formatted from (the degree sign is
\* written "deg"), error is "None" or the exception that str(e) renders
GimbalCommand(action, value, spd, message, success, error) ==
    [action |-> action, value |-> value, speed |-> spd, message |-> message,
     success |-> success, error |-> error]

CommandValueDefault == 0
CommandSpeedDefault == 5
DefaultDegrees == 30

W_home == <<"h", "o", "m", "e">>
W_center == <<"c", "e", "n", "t", "e", "r">>
W_stop == <<"s", "t", "o", "p">>
W_halt == <<"h", "a", "l", "t">>
W_pan == <<"p", "a", "n">>
W_left == <<"l", "e", "f", "t">>
W_right == <<"r", "i", "g", "h", "t">>
W_tilt == <<"t", "i", "l", "t">>
W_up == <<"u", "p">>
W_down == <<"d", "o", "w", "n">>

_fallback_parsing(text) ==
    LET cmd == strip(lower(text))
        numbers == findall_digits(cmd)
        degrees == IF numbers # <<>> THEN int_of_digits(numbers[1])
                   ELSE Return(DefaultDegrees)
    IN
    IF ContainsAny(cmd, {W_home, W_center})
    THEN Return(GimbalCommand("home", CommandValueDefault, CommandSpeedDefault,
                              <<"Moving to home position">>, TRUE, "None"))
    ELSE IF ContainsAny(cmd, {W_stop, W_halt})
    THEN Return(GimbalCommand("stop", CommandValueDefault, CommandSpeedDefault,
                              <<"Stopping movement">>, TRUE, "None"))
    ELSE IF degrees.raised THEN degrees
    ELSE IF ContainsAny(cmd, {W_pan, W_left, W_right})
    THEN LET direction == IF Contains(cmd, W_left) THEN -1 ELSE 1
         IN  Return(GimbalCommand("pan", direction * degrees.value * 1000,
                        CommandSpeedDefault,
                        <<"Panning ", IF direction < 0 THEN "left" ELSE "right",
                          " ", ToString(degrees.value), "deg">>,
                        TRUE, "None"))
    ELSE IF ContainsAny(cmd, {W_tilt, W_up, W_down})
    THEN LET direction == IF Contains(cmd, W_up) THEN 1 ELSE -1
         IN  Return(GimbalCommand("tilt", direction * degrees.value * 1000,
                        CommandSpeedDefault,
                        <<"Tilting ", IF direction > 0 THEN "up" ELSE "down",
                          " ", ToString(degrees.value), "deg">>,
                        TRUE, "None"))
    ELSE Return(GimbalCommand("error", CommandValueDefault, CommandSpeedDefault,
                              <<"Command not understood">>, FALSE, "None"))

\* The backend's answer to one request.  kind is
\*   "raises"      Client() or chat() raised
\*   "no_content"  response['message']['content'].strip() raised
\*   "no_json"     the text has no match of \{[^}]+\}
\*   "bad_json"    json.loads raised on the match
\*   "object"      json.loads gave the dict data
\*   "not_called"  no request was made
NoData == [action |-> Absent, value |-> Absent, speed |-> Absent, message |-> Absent]
Reply(kind, data) == [kind |-> kind, data |-> data]

_parse_llm_response(response, original_command) ==
    IF response.kind # "object"
    THEN _fallback_parsing(original_command)
    ELSE
        LET data == response.data
            action == get(data.action, JString("error"))
            value == float(get(data.value, JNumber(0)))
            spd == int(get(data.speed, JNumber(5000)))
            message ==
                IF data.message.type = "absent"
                THEN <<"Executing ", str(data.action), " command">>
                ELSE <<str(data.message)>>
        IN  IF value.raised \/ spd.raised
            THEN _fallback_parsing(original_command)
            ELSE Return(GimbalCommand(str(action), value.value,
                                      max(1, min(10, spd.value)),
                                      message, TRUE, "None"))

_process_with_ollama(text, backend) ==
    IF backend.kind \in {"raises", "no_content"}
    THEN _fallback_parsing(text)
    ELSE LET parsed == _parse_llm_response(backend, text)
         IN  IF parsed.raised THEN _fallback_parsing(text) ELSE parsed

\* the exception leaves process_command
process_command_NoHandler(text, available, backend) ==
    IF available THEN _process_with_ollama(text, backend)
    ELSE _fallback_parsing(text)

process_command(text, available, backend) ==
    LET done == IF available THEN _process_with_ollama(text, backend)
                ELSE _fallback_parsing(text)
    IN  IF done.raised
        THEN Return(GimbalCommand("error", CommandValueDefault, CommandSpeedDefault,
                                  <<"Error: ", done.exc>>, FALSE, done.exc))
        ELSE done

---------------------------------------------------------------------------
(* Inputs of the interpreter *)

W_45 == <<"4", "5">>
W_xyzzy == <<"x", "y", "z", "z", "y">>
W_Pan == <<"P", "a", "n">>

\* the words the texts given to the interpreter are made of
LLMWords == {W_home, W_Pan, W_left, W_tilt, W_up, W_45, W_xyzzy, <<LongDigits>>}

\* the texts of one to n words of a vocabulary, separated by single spaces
RECURSIVE TextsOf(_, _)
TextsOf(words, n) ==
    IF n = 1 THEN words
    ELSE LET shorter == TextsOf(words, n - 1)
         IN  shorter \cup {t \o <<" ">> \o word : t \in shorter, word \in words}

Texts == TextsOf(LLMWords, MaxWords)

ActionValues ==
    {Absent, JNull, JString("pan"), JString("tilt"), JString("home"),
     JString("stop"), JString("error"), JString("fly")}
ValueValues ==
    {Absent, JNull, JNumber(45000), JNumber(-200000), JString("30"), JString("fast")}
SpeedValues ==
    {Absent, JNull, JNumber(7000), JNumber(5700), JNumber(12000), JNumber(-3000),
     JString("7"), JString("5.5")}
MessageValues == {Absent, JString("ok")}

Replies ==
    {Reply(kind, NoData) : kind \in {"raises", "no_content", "no_json", "bad_json"}}
    \cup {Reply("object", [action |-> a, value |-> v, speed |-> sp, message |-> m]) :
            a \in ActionValues, v \in ValueValues,
            sp \in SpeedValues, m \in MessageValues}

---------------------------------------------------------------------------
(* State machine of the controller *)

CtrlInit ==
    /\ pan = NewController.pan
    /\ tilt = NewController.tilt
    /\ speed = NewController.speed
    /\ is_moving = NewController.is_moving
    /\ target_pan = NewController.target_pan
    /\ target_tilt = NewController.target_tilt
    /\ status = NewController.status
    /\ emitted = <<>>
    /\ status_label = "Ready"
    /\ op = "init"
    /\ args = <<>>
    /\ last_cmd = "init"
    /\ cmds = 0
    /\ ticks = 0

\* process_command has not returned
NoResult == Return(GimbalCommand("none", 0, 0, <<>>, FALSE, "None"))

\* the interpreter before any text is submitted
LLMIdle ==
    /\ command = <<>>
    /\ reply = Reply("not_called", NoData)
    /\ result = NoResult
    /\ llm_pc = "idle"

\* the window before any text command: ControlPanel.init_ui sets the label
AppIdle ==
    /\ response_label = [text |-> <<"Ready">>, success |-> TRUE]
    /\ inflight = {}
    /\ next_seq = 1
    /\ applied = <<>>

Init == CtrlInit /\ LLMIdle /\ AppIdle /\ ollama_available = FALSE

\* a call from the user interface (a button, or an interpreted command)
\* has run and left the object as c
Call(name, a, c) ==
    /\ cmds' = cmds + 1
    /\ op' = name
    /\ args' = a
    /\ last_cmd' = name
    /\ UNCHANGED ticks
    /\ Store(c)
    /\ UNCHANGED llm_vars
    /\ UNCHANGED app_vars

PanTo ==
    \E angle \in Angles, s \in Speeds : Call("pan_to", <<angle, s>>, pan_to(Self, angle, s))

TiltTo ==
    \E angle \in Angles, s \in Speeds : Call("tilt_to", <<angle, s>>, tilt_to(Self, angle, s))

MoveToHome == Call("move_to_home", <<>>, move_to_home(Self))

Stop == Call("stop", <<>>, stop(Self))

\* MainWindow.update_display, on the 16 ms timer
Update ==
    /\ op' = "update"
    /\ args' = <<>>
    /\ ticks' = min(ticks + 1, MaxTicks)
    /\ Store(update(Self))
    /\ UNCHANGED <<last_cmd, cmds>>
    /\ UNCHANGED llm_vars
    /\ UNCHANGED app_vars

Next ==
    \/ cmds < MaxCmds /\ ticks < MaxTicks /\ PanTo
    \/ cmds < MaxCmds /\ ticks < MaxTicks /\ TiltTo
    \/ cmds < MaxCmds /\ ticks < MaxTicks /\ MoveToHome
    \/ cmds < MaxCmds /\ ticks < MaxTicks /\ Stop
    \/ Update

Spec == Init /\ [][Next]_vars

\* The calls come before the first tick of the timer, which then runs alone
\* and keeps firing.
LiveNext ==
    \/ cmds < LiveCmds /\ ticks = 0 /\ PanTo
    \/ cmds < LiveCmds /\ ticks = 0 /\ TiltTo
    \/ cmds < LiveCmds /\ ticks = 0 /\ MoveToHome
    \/ cmds < LiveCmds /\ ticks = 0 /\ Stop
    \/ Update

LiveSpec == Init /\ [][LiveNext]_vars /\ WF_vars(Update)

---------------------------------------------------------------------------
(* State machine of the interpreter *)

\* LLMService.__init__: the backend was reachable at startup, or not
LLMInit == CtrlInit /\ LLMIdle /\ AppIdle /\ ollama_available \in BOOLEAN

\* ControlPanel.send_llm_command: a non-empty, stripped text is emitted
Submit ==
    /\ llm_pc = "idle"
    /\ \E text \in Texts : command' = text
    /\ llm_pc' = "submitted"
    /\ UNCHANGED <<ollama_available, reply, result>>
    /\ UNCHANGED ctrl_vars
    /\ UNCHANGED app_vars

\* LLMService.process_command(command)
ProcessCommand ==
    /\ llm_pc = "submitted"
    /\ \E backend \in IF ollama_available THEN Replies
                      ELSE {Reply("not_called", NoData)} :
          /\ reply' = backend
          /\ result' = process_command(command, ollama_available, backend)
    /\ llm_pc' = "done"
    /\ UNCHANGED <<ollama_available, command>>
    /\ UNCHANGED ctrl_vars
    /\ UNCHANGED app_vars

\* process_command has returned to its caller; the service keeps nothing of
\* the call
Returned ==
    /\ llm_pc = "done"
    /\ command' = <<>>
    /\ reply' = Reply("not_called", NoData)
    /\ result' = NoResult
    /\ llm_pc' = "idle"
    /\ UNCHANGED ollama_available
    /\ UNCHANGED ctrl_vars
    /\ UNCHANGED app_vars

LLMNext == Submit \/ ProcessCommand \/ Returned

LLMSpec == LLMInit /\ [][LLMNext]_vars

---------------------------------------------------------------------------
(* State machine of the interpreter without a backend: every text goes to *)
(* the fallback parser                                                     *)

W_7up == <<"7", "u", "p">>
W_upright == <<"u", "p", "r", "i", "g", "h", "t">>
W_LEFT == <<"L", "E", "F", "T">>

\* the keywords of the fallback parser, numbers, and words that hold a
\* keyword or none
FallbackWords ==
    {W_home, W_center, W_stop, W_halt, W_pan, W_left, W_right, W_tilt, W_up,
     W_down, W_45, W_7up, W_upright, W_LEFT, W_xyzzy, <<LongDigits>>}

FallbackTexts == TextsOf(FallbackWords, MaxWords)

\* ControlPanel.send_llm_command emits a non-empty, stripped text
FallbackSubmit ==
    /\ llm_pc = "idle"
    /\ \E text \in FallbackTexts : command' = text
    /\ llm_pc' = "submitted"
    /\ UNCHANGED <<ollama_available, reply, result>>
    /\ UNCHANGED ctrl_vars
    /\ UNCHANGED app_vars

FallbackNext == FallbackSubmit \/ ProcessCommand \/ Returned

FallbackSpec == Init /\ [][FallbackNext]_vars

---------------------------------------------------------------------------
(* State machine of the window: text commands and the timer, all handled  *)
(* by the one thread that runs the event loop                              *)

\* an action that is none of the four moves the gimbal home
execute_gimbal_command_ElseHome(c, cmd) ==
    IF cmd.action = "home" THEN move_to_home(c)
    ELSE IF cmd.action = "stop" THEN stop(c)
    ELSE IF cmd.action = "pan" THEN pan_to(c, cmd.value, cmd.speed)
    ELSE IF cmd.action = "tilt" THEN tilt_to(c, cmd.value, cmd.speed)
    ELSE move_to_home(c)

\* MainWindow.execute_gimbal_command
execute_gimbal_command(c, cmd) ==
    IF cmd.action = "home" THEN move_to_home(c)
    ELSE IF cmd.action = "stop" THEN stop(c)
    ELSE IF cmd.action = "pan" THEN pan_to(c, cmd.value, cmd.speed)
    ELSE IF cmd.action = "tilt" THEN tilt_to(c, cmd.value, cmd.speed)
    ELSE c

\* ControlPanel.update_response
update_response(message, success) == [text |-> message, success |-> success]

\* the call runs on a worker, the event loop goes on
GuiThreadFree_Worker == TRUE

\* The event loop can deliver an event (a click, a timer timeout) only when
\* no handler is running: process_llm_command calls process_command, and
\* that the backend, directly, and returns when the answer is there.
GuiThreadFree == inflight = {}

\* number of text commands submitted
MaxTexts == 2

W_pan_left_45 == W_pan \o <<" ">> \o W_left \o <<" ">> \o W_45
AppTexts == {W_pan_left_45, W_up, W_home, W_xyzzy}

AppReplies ==
    {Reply("raises", NoData),
     Reply("object", [action |-> JString("tilt"), value |-> JNumber(45000),
                      speed |-> JNumber(7000), message |-> Absent]),
     Reply("object", [action |-> JString("fly"), value |-> JNumber(45000),
                      speed |-> JNumber(7000), message |-> JString("ok")]),
     Reply("object", [action |-> Absent, value |-> Absent,
                      speed |-> Absent, message |-> Absent])}

AppInit == CtrlInit /\ LLMIdle /\ AppIdle /\ ollama_available \in BOOLEAN

\* ControlPanel.send_llm_command and MainWindow.process_llm_command up to
\* the call of process_command
AppSubmit ==
    /\ GuiThreadFree
    /\ next_seq <= MaxTexts
    /\ ticks < MaxTicks
    /\ \E text \in AppTexts :
          /\ command' = text
          /\ inflight' = inflight \cup {[seq |-> next_seq, text |-> text]}
    /\ next_seq' = next_seq + 1
    /\ response_label' = update_response(<<"Processing...">>, TRUE)
    /\ reply' = Reply("not_called", NoData)
    /\ result' = NoResult
    /\ llm_pc' = "submitted"
    /\ UNCHANGED <<ollama_available, applied>>
    /\ UNCHANGED ctrl_vars

\* process_command returns and MainWindow.process_llm_command goes on:
\* the message is shown and a successful command is executed
AppReturn ==
    \E r \in inflight :
    \E backend \in IF ollama_available THEN AppReplies
                      ELSE {Reply("not_called", NoData)} :
        LET res == process_command(r.text, ollama_available, backend)
        IN  /\ command' = r.text
            /\ reply' = backend
            /\ result' = res
            /\ inflight' = inflight \ {r}
            /\ llm_pc' = IF inflight' = {} THEN "idle" ELSE "submitted"
            /\ applied' = Append(applied, r.seq)
            /\ op' = "process_llm_command"
            /\ args' = <<r.seq>>
            /\ IF res.raised
               THEN /\ response_label' =
                         update_response(<<"Error: ", res.exc>>, FALSE)
                    /\ Store(Self)
                    /\ UNCHANGED <<last_cmd, cmds>>
               ELSE /\ response_label' =
                         update_response(res.value.message, res.value.success)
                    /\ IF res.value.success
                       THEN /\ Store(execute_gimbal_command(Self, res.value))
                            /\ last_cmd' = res.value.action
                            /\ cmds' = cmds + 1
                       ELSE /\ Store(Self)
                            /\ UNCHANGED <<last_cmd, cmds>>
            /\ UNCHANGED <<ollama_available, next_seq, ticks>>

\* the timer's timeout is delivered: MainWindow.update_display
AppTick == GuiThreadFree /\ Update

AppNext == AppSubmit \/ AppReturn \/ AppTick

AppSpec == AppInit /\ [][AppNext]_vars

---------------------------------------------------------------------------
(* Properties of the controller *)

\* x limited to lo..hi, by cases
Limited(x, lo, hi) == IF x < lo THEN lo ELSE IF x > hi THEN hi ELSE x

PanDiff == target_pan - pan
TiltDiff == target_tilt - tilt

\* C1: in every reachable state the position is inside the limits of the
\* axes: pan in [-180,180] and tilt in [-90,90] degrees.
C1_PositionInRange ==
    /\ -180000 <= pan /\ pan <= 180000
    /\ -90000 <= tilt /\ tilt <= 90000

\* a motion towards a target beyond the limit has ended at the limit
C1_Witness ==
    /\ op = "update" /\ ~is_moving
    /\ pan = 180000
    /\ emitted # <<>>

\* C2: whenever is_moving is false, the position is exactly the target on
\* both axes.
C2_IdleAtTarget == ~is_moving => (pan = target_pan /\ tilt = target_tilt)

\* stop() in the middle of a motion
C2_Witness ==
    /\ op = "stop" /\ ~is_moving
    /\ pan = 5000 /\ target_pan = 5000

\* C3: pan_to(a, s) leaves target_pan = a limited to [-180,180] and
\* tilt_to(a, s) leaves target_tilt = a limited to [-90,90]; the call is
\* accepted whatever a is: the controller is moving and reports "Moving".
C3_TargetClamped ==
    /\ op = "pan_to" =>
        /\ target_pan = Limited(args[1], -180000, 180000)
        /\ is_moving /\ emitted = <<StatusChanged("Moving")>>
    /\ op = "tilt_to" =>
        /\ target_tilt = Limited(args[1], -90000, 90000)
        /\ is_moving /\ emitted = <<StatusChanged("Moving")>>

\* a tilt angle beyond the limit was given and stored as the limit
C3_Witness ==
    /\ op = "tilt_to" /\ args[1] < -90000 /\ target_tilt = -90000

\* C4: pan_to and tilt_to store the speed limited to [1,10], and the speed
\* is in [1,10] in every reachable state.
C4_SpeedClamped ==
    /\ 1 <= speed /\ speed <= 10
    /\ op \in {"pan_to", "tilt_to"} => speed = Limited(args[2], 1, 10)

\* a speed of zero or less was given and stored as 1
C4_Witness ==
    /\ op = "pan_to" /\ args[2] <= 0 /\ speed = 1

\* C5: an update() of a moving controller that has not arrived moves each
\* axis by diff * speed / 100 (to the nearest thousandth of a degree)
\* towards its target: the remaining distance does not grow and the
\* difference does not change sign.
C5_Step(pos, pos2, target, sp) ==
    /\ abs(100 * (pos2 - pos) - (target - pos) * sp) <= 50
    /\ abs(target - pos2) <= abs(target - pos)
    /\ target >= pos => target >= pos2
    /\ target <= pos => target <= pos2

C5_NoOvershoot ==
    [][(/\ is_moving
        /\ op' = "update"
        /\ ~(abs(PanDiff) < 100 /\ abs(TiltDiff) < 100))
       => /\ C5_Step(pan, pan', target_pan, speed)
          /\ C5_Step(tilt, tilt', target_tilt, speed)
          /\ is_moving'
          /\ UNCHANGED <<target_pan, target_tilt, speed>>]_vars

\* pan = 0, target 100 degrees, speed 5: one tick gives pan = 5.0
C5_Witness ==
    /\ op = "update" /\ is_moving
    /\ target_pan = 100000 /\ speed = 5 /\ pan = 5000

\* C6: once the calls have ended and the timer runs alone, a moving
\* controller eventually arrives: is_moving is false, the position is the
\* target, and that tick reports "Ready"; and update() ends a motion only
\* when both axes are within 0.1 degree of their targets.
C6_Arrives ==
    /\ (is_moving /\ (ticks > 0 \/ cmds = LiveCmds))
         ~> (/\ op = "update" /\ ~is_moving
             /\ pan = target_pan /\ tilt = target_tilt
             /\ emitted = <<StatusChanged("Ready"),
                            PositionChanged([pan |-> pan, tilt |-> tilt,
                                             speed |-> speed])>>)
    /\ [][(is_moving /\ op' = "update" /\ ~is_moving')
          => (abs(PanDiff) < 100 /\ abs(TiltDiff) < 100)]_vars

\* both axes were sent to their limits and the motion has ended there
C6_Witness ==
    /\ op = "update" /\ ~is_moving
    /\ pan = -180000 /\ tilt = 90000
    /\ Len(emitted) = 2

\* C7: update() of a controller that is not moving changes nothing and
\* emits nothing.
C7_IdleUpdateNoOp ==
    [][(~is_moving /\ op' = "update")
       => /\ UNCHANGED ctrl
          /\ emitted' = <<>>
          /\ status_label' = status_label]_vars

\* update() was called after the arrival
C7_Witness ==
    /\ op = "update" /\ ~is_moving /\ emitted = <<>>
    /\ pan # 0

\* C8: stop() makes the current position the target, leaves the position,
\* ends the motion and reports "Ready"; the ticks that follow it, up to the
\* next call, leave the position and the status as they are.
C8_StopHolds ==
    /\ [][op' = "stop"
          => /\ target_pan' = pan /\ target_tilt' = tilt
             /\ pan' = pan /\ tilt' = tilt
             /\ ~is_moving'
             /\ emitted' = <<StatusChanged("Ready")>>
             /\ status_label' = "Ready"]_vars
    /\ [][(last_cmd = "stop" /\ op' = "update")
          => /\ pan' = pan /\ tilt' = tilt
             /\ ~is_moving'
             /\ status_label' = "Ready" /\ status' = "Ready"]_vars

\* a tick after a stop() in the middle of a motion
C8_Witness ==
    /\ last_cmd = "stop" /\ op = "update"
    /\ pan = 5000 /\ target_pan = 5000 /\ ~is_moving

\* C9: move_to_home() leaves the controller as pan_to(0, 5) followed by
\* tilt_to(0, 5) does: both targets 0, speed 5, moving, "Moving" reported
\* twice, the position as it was.
C9_HomeIsPanThenTilt ==
    [][op' = "move_to_home"
       => /\ target_pan' = 0 /\ target_tilt' = 0
          /\ speed' = 5
          /\ is_moving'
          /\ pan' = pan /\ tilt' = tilt
          /\ emitted' = <<StatusChanged("Moving"), StatusChanged("Moving")>>]_vars

\* move_to_home() called while the tilt axis was on its way elsewhere
C9_Witness ==
    /\ op = "move_to_home"
    /\ tilt # 0 /\ target_tilt = 0 /\ target_pan = 0 /\ speed = 5

\* the status notifications among the signals of the last handler
RECURSIVE StatusesOf(_)
StatusesOf(signals) ==
    IF signals = <<>> THEN <<>>
    ELSE (IF Head(signals).signal = "status_changed"
          THEN <<Head(signals).arg>> ELSE <<>>) \o StatusesOf(Tail(signals))

\* C15: the last status notification ("Ready" before any) is "Moving"
\* exactly when is_moving holds and "Ready" exactly when it does not; a call
\* that sets a target emits "Moving" and leaves is_moving true, also when the
\* target is the current position.
C15_StatusTracksMoving ==
    /\ status_label = "Moving" <=> is_moving
    /\ status_label = "Ready" <=> ~is_moving
    /\ op \in {"pan_to", "tilt_to", "move_to_home"}
       => /\ is_moving
          /\ StatusesOf(emitted) # <<>>
          /\ \A i \in DOMAIN StatusesOf(emitted) : StatusesOf(emitted)[i] = "Moving"

\* move_to_home at the home position: the target is the current position
\* and the status is Moving all the same
C15_Witness ==
    /\ op = "move_to_home"
    /\ pan = target_pan /\ tilt = target_tilt
    /\ is_moving
    /\ status_label = "Moving"

---------------------------------------------------------------------------
(* Properties of the interpreter *)

\* float() and int() raise on these values of the answer
NotAFloat(v) ==
    v.type = "null" \/ (v.type = "string" /\ v.text \notin {"30", "7", "5.5"})
NotAnInt(v) ==
    v.type = "null" \/ (v.type = "string" /\ v.text \notin {"30", "7"})

\* the call was made and failed: the backend did not answer, or its answer
\* could not be read as a command
RemoteFailed ==
    \/ reply.kind \in {"raises", "no_content", "no_json", "bad_json"}
    \/ reply.kind = "object"
       /\ (NotAFloat(reply.data.value) \/ NotAnInt(reply.data.speed))

IsGimbalCommand(c) ==
    /\ DOMAIN c = {"action", "value", "speed", "message", "success", "error"}
    /\ c.action \in STRING
    /\ c.value \in Int
    /\ c.speed \in Int
    /\ c.success \in BOOLEAN

\* C10: process_command never raises: it returns a GimbalCommand whatever
\* the text and whatever the backend does; and when the backend was not
\* reachable at startup, or the call failed, the GimbalCommand has action
\* "error" or is the one the fallback parser returns for the text.
C10_NeverRaises ==
    llm_pc = "done" =>
        /\ ~result.raised
        /\ IsGimbalCommand(result.value)
        /\ (~ollama_available \/ RemoteFailed) =>
              \/ result.value.action = "error"
              \/ /\ ~_fallback_parsing(command).raised
                 /\ result.value = _fallback_parsing(command).value

\* the backend raised, then the fallback parser raised on a run of digits
\* that int() refuses, and process_command returned the error
C10_Witness ==
    /\ llm_pc = "done"
    /\ ollama_available /\ reply.kind = "raises"
    /\ _fallback_parsing(command).raised
    /\ ~result.raised
    /\ result.value.action = "error" /\ result.value.error = "ValueError"

\* the answer is not a usable command: no JSON object in it, JSON that does
\* not parse, an action other than pan, tilt, home and stop, or a value or
\* speed that is no number
UnusableAnswer ==
    \/ reply.kind \in {"no_json", "bad_json"}
    \/ reply.kind = "object"
       /\ \/ reply.data.action.type # "string"
          \/ reply.data.action.text \notin {"pan", "tilt", "home", "stop"}
          \/ NotAFloat(reply.data.value)
          \/ NotAnInt(reply.data.speed)

\* C11: when the backend's answer is unusable, process_command returns
\* exactly the GimbalCommand the fallback parser returns for the text
\* (stated for the texts on which the fallback parser returns one).
C11_UnusableGivesFallback ==
    (/\ llm_pc = "done"
     /\ ollama_available
     /\ UnusableAnswer
     /\ ~_fallback_parsing(command).raised)
    => /\ ~result.raised
       /\ result.value = _fallback_parsing(command).value

\* C12: a GimbalCommand returned by process_command with action "error" has
\* success = false.
C12_ErrorImpliesFailure ==
    (llm_pc = "done" /\ ~result.raised /\ result.value.action = "error")
    => ~result.value.success

\* the class the precedence of the keywords gives a lower-cased, trimmed text
KeywordClass(t) ==
    IF Contains(t, W_home) \/ Contains(t, W_center) THEN "home"
    ELSE IF Contains(t, W_stop) \/ Contains(t, W_halt) THEN "stop"
    ELSE IF Contains(t, W_pan) \/ Contains(t, W_left) \/ Contains(t, W_right) THEN "pan"
    ELSE IF Contains(t, W_tilt) \/ Contains(t, W_up) \/ Contains(t, W_down) THEN "tilt"
    ELSE "error"

\* C13: the fallback path gives a text the action of its keyword class: home
\* or center, else stop or halt, else pan, left or right, else tilt, up or
\* down, else error with success = false; a pan keyword wins over a tilt
\* keyword.
C13_KeywordPrecedence ==
    (llm_pc = "done" /\ ~ollama_available)
    => /\ ~result.raised
       /\ result.value.action = KeywordClass(strip(lower(command)))
       /\ result.value.action = "error" => ~result.value.success

\* the first digit run of the text is one int() accepts, or there is none
ShortDigits(t) ==
    findall_digits(t) = <<>> \/ StrLen(findall_digits(t)[1]) <= IntMaxStrDigits

\* the keyword precedence of C13 on every text whose first run of digits
\* int() accepts
KeywordPrecedenceShortDigits ==
    (llm_pc = "done" /\ ~ollama_available /\ ShortDigits(strip(lower(command))))
    => /\ ~result.raised
       /\ result.value.action = KeywordClass(strip(lower(command)))
       /\ result.value.action = "error" => ~result.value.success

\* the positions of the digits of t
DigitPositions(t) == {i \in 1..Len(t) : IsDigit(t[i])}

\* the first maximal run of digits of t (t has a digit)
FirstDigitRun(t) ==
    LET first == CHOOSE i \in DigitPositions(t) :
                     \A j \in DigitPositions(t) : i <= j
        last == CHOOSE j \in first..Len(t) :
                     /\ \A k \in first..j : k \in DigitPositions(t)
                     /\ j + 1 \notin DigitPositions(t)
    IN  SubSeq(t, first, last)

\* C14: a fallback result with action pan or tilt has speed 5 and as
\* magnitude the first run of digits of the text, 30 without a digit; pan is
\* negative iff the text contains "left", tilt positive iff it contains "up".
C14_MagnitudeAndSign ==
    (/\ llm_pc = "done"
     /\ ~ollama_available
     /\ ~result.raised
     /\ result.value.action \in {"pan", "tilt"})
    => LET t == strip(lower(command))
           magnitude == IF DigitPositions(t) = {} THEN 30
                        ELSE DecimalValue(FirstDigitRun(t))
           sign == IF result.value.action = "pan"
                   THEN (IF Contains(t, W_left) THEN -1 ELSE 1)
                   ELSE (IF Contains(t, W_up) THEN 1 ELSE -1)
       IN  /\ result.value.value = sign * magnitude * 1000
           /\ result.value.speed = 5

\* "45 7up" was parsed: tilt up by the first run, 45, not by 7
C14_Witness ==
    /\ llm_pc = "done"
    /\ command = W_45 \o <<" ">> \o W_7up
    /\ result = Return(GimbalCommand("tilt", 45000, 5,
                           <<"Tilting ", "up", " ", "45", "deg">>, TRUE, "None"))

---------------------------------------------------------------------------
(* Properties of the window *)

\* C16: while the remote call of a text command is in flight and the gimbal
\* is moving, the timer's update() can run.
C16_TickWhileInFlight ==
    (inflight # {} /\ ollama_available /\ is_moving) => ENABLED AppTick

\* s is strictly increasing
Increasing(s) == \A i, j \in DOMAIN s : i < j => s[i] < s[j]

\* C17: the text commands are handled in the order of their submission: the
\* numbers in applied increase, and a command still in flight is later than
\* every one handled.
C17_AppliedInOrder ==
    /\ Increasing(applied)
    /\ \A r \in inflight : \A i \in DOMAIN applied : applied[i] < r.seq

\* two text commands were submitted and handled, the first one first
C17_Witness == applied = <<1, 2>> /\ inflight = {}

\* C18: handling a text command whose result has success = false, or an
\* action other than pan, tilt, home and stop, leaves pan, tilt, target_pan,
\* target_tilt, speed and is_moving as they were and emits no status
\* notification; the response label shows the result's message.
C18_FailedCommandFrame ==
    [][(/\ applied' # applied
        /\ \/ result'.raised
           \/ ~result'.value.success
           \/ result'.value.action \notin {"pan", "tilt", "home", "stop"})
       => /\ UNCHANGED <<pan, tilt, target_pan, target_tilt, speed, is_moving>>
          /\ StatusesOf(emitted') = <<>>
          /\ status_label' = status_label
          /\ ~result'.raised => response_label'.text = result'.value.message]_vars

\* an answer with the action "fly" was handled while the gimbal was on its
\* way: it is still on its way
C18_Witness ==
    /\ op = "process_llm_command"
    /\ ~result.raised
    /\ result.value.action = "fly"
    /\ result.value.success
    /\ is_moving
    /\ pan # target_pan

\* a text that the fallback parser does not understand was handled while
\* the gimbal was on its way
C18_WitnessFailure ==
    /\ op = "process_llm_command"
    /\ ~result.raised
    /\ ~result.value.success
    /\ is_moving
    /\ pan # target_pan

===========================================================================
